---- MODULE Spec2Model ----
(***************************************************************************)
(* vq-voice-swap: the name factories, the VQ-VAE orchestrators            *)
(* (ConcreteVQVAE, CascadeVQVAE), the TimeScale gate, checkpoint save and  *)
(* load, and the training program train_vqvae.py.                          *)
(*                                                                         *)
(* Numbers.  Tensor entries and gate scales are fixed-point integers in    *)
(* thousandths (1000 stands for 1.0).  Python's None is the empty set and  *)
(* a present optional value v is {v}.                                      *)
(***************************************************************************)
EXTENDS Integers, Sequences, FiniteSets, TLC

VARIABLES
    fcall,          \* the last name-factory call and its outcome
    pc,             \* position of the program using the orchestrator
    fs,             \* the files: the checkpoint path and its ".tmp" sibling
    obj,            \* the live orchestrator instance
    last,           \* outcome of the last call on the orchestrator
    saved,          \* history: the instance as it was when last saved
    step,           \* optimizer steps taken so far
    args,           \* train_vqvae.py: dataset label count and save interval
    gates,          \* CascadeVQVAE.scale_label / scale_cond parameters
    inp,            \* inputs of one predictions()/losses() call
    out             \* result of that call

vars == <<fcall, pc, fs, obj, last, saved, step, args, gates, inp, out>>

None == {}
Some(v) == {v}
Truthy(opt) == opt # {} /\ opt # {0}
The(opt) == CHOOSE v \in opt : TRUE

(***************************************************************************)
(* Outcomes of a call: a returned value or a raised exception.  The        *)
(* message of an exception is the sequence of the pieces its f-string      *)
(* joins.                                                                  *)
(***************************************************************************)
NoVariant ==
    [variant |-> "", base_channels |-> None, cond_mult |-> None,
     cond_channels |-> None, out_channels |-> None, num_labels |-> None,
     dropout |-> None, rate |-> None]

Return(v) == [status |-> "return", exc |-> "", msg |-> <<>>, value |-> v]
Raise(e, m) == [status |-> "raise", exc |-> e, msg |-> m, value |-> NoVariant]

\* ---------------------------------------------------------------------
\* diffusion/make.py
\* ---------------------------------------------------------------------
make_schedule_fallback(name) ==
    IF name = "cos" THEN Return([NoVariant EXCEPT !.variant = "CosSchedule"])
    ELSE Return([NoVariant EXCEPT !.variant = "ExpSchedule"])

make_schedule(name) ==
    IF name = "exp" THEN Return([NoVariant EXCEPT !.variant = "ExpSchedule"])
    ELSE IF name = "cos" THEN Return([NoVariant EXCEPT !.variant = "CosSchedule"])
    ELSE Raise("ValueError", <<"unknown schedule: ", name>>)

\* ---------------------------------------------------------------------
\* models/make.py
\* ---------------------------------------------------------------------
make_predictor(pred_name, base_channels, num_labels, cond_channels, dropout) ==
    IF pred_name = "wavegrad"
    THEN IF dropout # 0
         THEN Raise("AssertionError", <<"dropout not supported for wavegrad">>)
         ELSE LET cond_mult == IF Truthy(cond_channels)
                               THEN The(cond_channels) \div base_channels
                               ELSE 16
              IN  Return([NoVariant EXCEPT !.variant = "WaveGradPredictor",
                                           !.base_channels = Some(base_channels),
                                           !.cond_mult = Some(cond_mult),
                                           !.num_labels = num_labels])
    ELSE IF pred_name = "unet"
    THEN Return([NoVariant EXCEPT !.variant = "UNetPredictor",
                                  !.base_channels = Some(base_channels),
                                  !.cond_channels = cond_channels,
                                  !.num_labels = num_labels,
                                  !.dropout = Some(dropout)])
    ELSE Raise("ValueError", <<"unknown predictor: ", pred_name>>)

make_encoder(enc_name, base_channels, cond_mult) ==
    IF enc_name = "wavegrad"
    THEN Return([NoVariant EXCEPT !.variant = "WaveGradEncoder",
                                  !.cond_mult = Some(cond_mult),
                                  !.base_channels = Some(base_channels)])
    ELSE IF enc_name = "unet"
    THEN Return([NoVariant EXCEPT !.variant = "UNetEncoder",
                                  !.base_channels = Some(base_channels),
                                  !.out_channels = Some(base_channels * cond_mult)])
    ELSE Raise("ValueError", <<"unknown encoder: ", enc_name>>)

predictor_downsample_rate(pred_name) ==
    IF pred_name = "wavegrad"
    THEN Return([NoVariant EXCEPT !.rate = Some(2 ^ 6)])
    ELSE IF pred_name = "unet"
    THEN Return([NoVariant EXCEPT !.rate = Some(2 ^ 8)])
    ELSE Raise("ValueError", <<"unknown predictor: ", pred_name>>)

\* ---------------------------------------------------------------------
\* vq_vae.py: its own copies of the predictor factory and rate table
\* ---------------------------------------------------------------------
vq_vae_make_predictor(pred_name, base_channels, cond_channels, num_labels) ==
    IF pred_name = "wavegrad"
    THEN LET cond_mult == IF Truthy(cond_channels)
                          THEN The(cond_channels) \div base_channels
                          ELSE 16
         IN  Return([NoVariant EXCEPT !.variant = "WaveGradPredictor",
                                      !.base_channels = Some(base_channels),
                                      !.cond_mult = Some(cond_mult),
                                      !.num_labels = num_labels])
    ELSE IF pred_name = "unet"
    THEN Return([NoVariant EXCEPT !.variant = "UNetPredictor",
                                  !.base_channels = Some(base_channels),
                                  !.cond_channels = cond_channels,
                                  !.num_labels = num_labels])
    ELSE Raise("ValueError", <<"unknown predictor: ", pred_name>>)

vq_vae_predictor_downsample_rate(pred_name) ==
    IF pred_name = "wavegrad"
    THEN Return([NoVariant EXCEPT !.rate = Some(2 ^ 6)])
    ELSE IF pred_name = "unet"
    THEN Return([NoVariant EXCEPT !.rate = Some(2 ^ 8)])
    ELSE Raise("ValueError", <<"unknown predictor: ", pred_name>>)

\* ---------------------------------------------------------------------
\* vq_vae.py: ConcreteVQVAE and CascadeVQVAE as objects
\* ---------------------------------------------------------------------
Classes == {"ConcreteVQVAE", "CascadeVQVAE"}

\* The entries of state_dict(), one per registered sub-module.
StateKeys(cls) ==
    IF cls = "CascadeVQVAE"
    THEN {"encoder", "vq", "cond_predictor",
          "scale_cond", "scale_label", "base_predictor", "label_predictor"}
    ELSE {"encoder", "vq", "cond_predictor"}

NoParams == [k \in {} |-> 0]
NoKwargs == [pred_name |-> "", num_labels |-> 0, base_channels |-> 0]
NoObj == [cls |-> "", pred_name |-> "", num_labels |-> 0, base_channels |-> 0,
          params |-> NoParams]

\* ConcreteVQVAE.__init__ / CascadeVQVAE.__init__: every make_predictor call
\* of the constructor gets the same pred_name, so the first one decides
\* whether construction raises.  seed stands for the random initialisation.
New(cls, pred_name, num_labels, base_channels, seed) ==
    LET p == vq_vae_make_predictor(pred_name, base_channels, Some(base_channels * 16),
                                   Some(num_labels))
    IN  IF p.status = "raise"
        THEN [status |-> "raise", exc |-> p.exc, msg |-> p.msg, obj |-> NoObj]
        ELSE [status |-> "return", exc |-> "", msg |-> <<>>,
              obj |-> [cls |-> cls, pred_name |-> pred_name,
                       num_labels |-> num_labels, base_channels |-> base_channels,
                       params |-> [k \in StateKeys(cls) |-> seed]]]

\* The names predictions() returns.
PredictionKeys(cls) ==
    IF cls = "CascadeVQVAE" THEN {"base", "label", "cond"} ELSE {"cond"}

\* WaveGradEncoder's declared downsample rate (the class is outside src/).
encoder_downsample_rate == 64

downsample_rate_encoder_only(o) == Return([NoVariant EXCEPT !.rate = Some(encoder_downsample_rate)])

downsample_rate(o) == vq_vae_predictor_downsample_rate(o.pred_name)

\* VQVAE.decode: the noise tensor's length, and for each of the `steps`
\* calls ddpm_sample makes to the predictor function, the entry of
\* predictions() that the lambda hands back.
decode(o, codes_len, steps, key) ==
    [noise_len |-> codes_len * The(downsample_rate(o).value.rate),
     used |-> [i \in 1..steps |-> "cond"]]

\* ---------------------------------------------------------------------
\* Files, save and load
\* ---------------------------------------------------------------------
Absent == [exists |-> FALSE, complete |-> FALSE, kwargs |-> NoKwargs,
           state_dict |-> NoParams]

\* ConcreteVQVAE.save, lines 164-171: the record handed to atomic_save.
save_state_untrained(o) ==
    [kwargs |-> [pred_name |-> o.pred_name, num_labels |-> o.num_labels,
                 base_channels |-> o.base_channels],
     state_dict |-> [k \in DOMAIN o.params |-> 0]]

save_state(o) ==
    [kwargs |-> [pred_name |-> o.pred_name, num_labels |-> o.num_labels,
                 base_channels |-> o.base_channels],
     state_dict |-> o.params]

FileOf(state, complete) ==
    [exists |-> TRUE, complete |-> complete, kwargs |-> state.kwargs,
     state_dict |-> state.state_dict]

\* ConcreteVQVAE.load: torch.load, cls(**kwargs), load_state_dict (strict).
load_keep_fresh(cls, file, seed) ==
    IF ~file.exists
    THEN [status |-> "raise", exc |-> "FileNotFoundError", msg |-> <<>>, obj |-> NoObj]
    ELSE IF ~file.complete
    THEN [status |-> "raise", exc |-> "UnpicklingError", msg |-> <<>>, obj |-> NoObj]
    ELSE LET fresh == New(cls, file.kwargs.pred_name, file.kwargs.num_labels,
                          file.kwargs.base_channels, seed)
         IN  IF fresh.status = "raise" THEN fresh
             ELSE IF DOMAIN file.state_dict # StateKeys(cls)
             THEN [status |-> "raise", exc |-> "RuntimeError", msg |-> <<>>,
                   obj |-> NoObj]
             ELSE fresh

load(cls, file, seed) ==
    IF ~file.exists
    THEN [status |-> "raise", exc |-> "FileNotFoundError", msg |-> <<>>, obj |-> NoObj]
    ELSE IF ~file.complete
    THEN [status |-> "raise", exc |-> "UnpicklingError", msg |-> <<>>, obj |-> NoObj]
    ELSE LET fresh == New(cls, file.kwargs.pred_name, file.kwargs.num_labels,
                          file.kwargs.base_channels, seed)
         IN  IF fresh.status = "raise" THEN fresh
             ELSE IF DOMAIN file.state_dict # StateKeys(cls)
             THEN [status |-> "raise", exc |-> "RuntimeError", msg |-> <<>>,
                   obj |-> NoObj]
             ELSE [fresh EXCEPT !.obj.params = file.state_dict]

\* ---------------------------------------------------------------------
\* Bounds and input sets
\* ---------------------------------------------------------------------
MaxSteps == 2
MaxLabels == 2
MaxSeed == 1
MaxInterval == 2
MaxDecodeSteps == 2
MaxGateSteps == 1

Names == {"exp", "cos", "wavegrad", "unet", "WaveGrad", "linear"}
BaseChannels == {16, 32}
CondChannels == {None, Some(0), Some(512)}
CondMults == {8, 16}
LabelCounts == 1..MaxLabels
OptLabelCounts == {None} \cup {Some(n) : n \in LabelCounts}
Dropouts == {0, 100}
Seeds == 0..MaxSeed

NoLast == [op |-> "", cls |-> "", status |-> "", exc |-> "", obj |-> NoObj,
           rate |-> 0, key |-> "", used |-> <<>>, noise_len |-> 0]
NoFiles == [ckpt |-> Absent, tmp |-> Absent]
NoArgs == [num_labels |-> 0, save_interval |-> 0, ckpt0 |-> Absent]

\* One optimizer step: opt.step() adds an update to every parameter it owns.
\* Either every parameter moves, or only one predictor stage does (the others
\* had a zero gradient).
Updates(cls) ==
    {[k \in StateKeys(cls) |-> 1]}
        \cup {[k \in StateKeys(cls) |-> IF k = j THEN 1 ELSE 0] :
                 j \in StateKeys(cls) \ {"encoder", "vq", "scale_cond", "scale_label"}}

opt_step(o, g) == [o EXCEPT !.params = [k \in DOMAIN o.params |-> o.params[k] + g[k]]]

\* ---------------------------------------------------------------------
\* A program that uses the orchestrator: construct, train, save, load,
\* query.  save() is split where the process can die: while torch.save
\* writes the temporary file, and between that write and os.rename.
\* ---------------------------------------------------------------------
Construct ==
    /\ pc = "ready"
    /\ obj = NoObj
    /\ \E cls \in Classes, pn \in {"wavegrad", "unet", "linear"},
          nl \in LabelCounts, bc \in BaseChannels, seed \in Seeds :
          LET r == New(cls, pn, nl, bc, seed)
          IN  /\ obj' = IF r.status = "return" THEN r.obj ELSE obj
              /\ last' = [NoLast EXCEPT !.op = "new", !.cls = cls,
                                        !.status = r.status, !.exc = r.exc]
    /\ UNCHANGED <<fcall, pc, fs, saved, step, args, gates, inp, out>>

OptimizerStep ==
    /\ pc = "ready"
    /\ obj # NoObj
    /\ step < MaxSteps
    /\ \E g \in Updates(obj.cls) : obj' = opt_step(obj, g)
    /\ step' = step + 1
    /\ UNCHANGED <<fcall, pc, fs, last, saved, args, gates, inp, out>>

\* save(): build the state record and enter atomic_save, which opens path + ".tmp".
Save ==
    /\ pc = "ready"
    /\ obj # NoObj
    /\ fs' = [fs EXCEPT !.tmp = FileOf(save_state(obj), FALSE)]
    /\ pc' = "save_write"
    /\ last' = [NoLast EXCEPT !.op = "save", !.cls = obj.cls]
    /\ UNCHANGED <<fcall, obj, saved, step, args, gates, inp, out>>

\* atomic_save: torch.save(state, tmp_path) completes.
SaveWrite ==
    /\ pc = "save_write"
    /\ fs' = [fs EXCEPT !.tmp.complete = TRUE]
    /\ pc' = "save_rename"
    /\ UNCHANGED <<fcall, obj, last, saved, step, args, gates, inp, out>>

\* atomic_save: torch.save raises part-way (disk full, I/O error); the
\* exception leaves save() and ends the program.
SaveWriteFail ==
    /\ pc = "save_write"
    /\ pc' = "failed"
    /\ last' = [last EXCEPT !.status = "raise", !.exc = "OSError"]
    /\ UNCHANGED <<fcall, fs, obj, saved, step, args, gates, inp, out>>

\* atomic_save: os.rename(tmp_path, path).
SaveRename ==
    /\ pc = "save_rename"
    /\ fs' = [ckpt |-> fs.tmp, tmp |-> Absent]
    /\ saved' = obj
    /\ last' = [last EXCEPT !.status = "return"]
    /\ pc' = "ready"
    /\ UNCHANGED <<fcall, obj, step, args, gates, inp, out>>

\* The process is killed.
Crash ==
    /\ pc \in {"start", "ready", "save_write", "save_rename"}
    /\ pc' = "crashed"
    /\ UNCHANGED <<fcall, fs, obj, last, saved, step, args, gates, inp, out>>

Load ==
    /\ pc = "ready"
    /\ \E cls \in Classes, seed \in Seeds :
          LET r == load(cls, fs.ckpt, seed)
          IN  last' = [NoLast EXCEPT !.op = "load", !.cls = cls,
                                     !.status = r.status, !.exc = r.exc,
                                     !.obj = r.obj]
    /\ UNCHANGED <<fcall, pc, fs, obj, saved, step, args, gates, inp, out>>

DownsampleRate ==
    /\ pc = "ready"
    /\ obj # NoObj
    /\ LET r == downsample_rate(obj)
       IN  last' = [NoLast EXCEPT !.op = "downsample_rate", !.cls = obj.cls,
                                  !.status = r.status, !.exc = r.exc,
                                  !.rate = The(r.value.rate)]
    /\ UNCHANGED <<fcall, pc, fs, obj, saved, step, args, gates, inp, out>>

Decode ==
    /\ pc = "ready"
    /\ obj # NoObj
    /\ \E codes_len \in 1..2, steps \in 1..MaxDecodeSteps,
          key \in PredictionKeys(obj.cls) :
          LET r == decode(obj, codes_len, steps, key)
          IN  last' = [NoLast EXCEPT !.op = "decode", !.cls = obj.cls,
                                     !.status = "return", !.key = key,
                                     !.used = r.used, !.noise_len = r.noise_len]
    /\ UNCHANGED <<fcall, pc, fs, obj, saved, step, args, gates, inp, out>>

\* ---------------------------------------------------------------------
\* train_vqvae.py
\* ---------------------------------------------------------------------
\* main, line 24: assert model.num_labels == num_labels
labels_assert_skipped(model, num_labels) == TRUE

labels_assert(model, num_labels) == model.num_labels = num_labels

\* main, lines 16-32: the data loader, then load-or-create.  The model class
\* of the script takes num_labels alone; it is built as the wavegrad
\* orchestrator with the default base_channels.
MainSetup ==
    /\ pc = "start"
    /\ \E seed \in Seeds :
          IF fs.ckpt.exists
          THEN LET r == load("ConcreteVQVAE", fs.ckpt, seed)
               IN  /\ obj' = r.obj
                   /\ last' = [NoLast EXCEPT !.op = "load", !.cls = "ConcreteVQVAE",
                                             !.status = r.status, !.exc = r.exc,
                                             !.obj = r.obj]
                   /\ pc' = IF r.status = "raise" THEN "failed"
                            ELSE IF labels_assert(r.obj, args.num_labels) THEN "ready"
                            ELSE "assert_failed"
          ELSE LET r == New("ConcreteVQVAE", "wavegrad", args.num_labels, 32, seed)
               IN  /\ obj' = r.obj
                   /\ last' = [NoLast EXCEPT !.op = "new", !.cls = "ConcreteVQVAE",
                                             !.status = r.status, !.exc = r.exc]
                   /\ pc' = "ready"
    /\ UNCHANGED <<fcall, fs, saved, step, args, gates, inp, out>>

\* main, lines 34-49: one iteration of the training loop: losses, backward,
\* opt.step, and every save_interval-th step the call of model.save.
MainTrainStep ==
    /\ pc = "ready"
    /\ step < MaxSteps
    /\ \E g \in Updates(obj.cls) :
          /\ obj' = opt_step(obj, g)
          /\ step' = step + 1
          /\ IF (step + 1) % args.save_interval = 0
             THEN /\ fs' = [fs EXCEPT !.tmp = FileOf(save_state(obj'), FALSE)]
                  /\ pc' = "save_write"
                  /\ last' = [NoLast EXCEPT !.op = "save", !.cls = obj.cls]
             ELSE UNCHANGED <<fs, pc, last>>
    /\ UNCHANGED <<fcall, saved, args, gates, inp, out>>

\* ---------------------------------------------------------------------
\* Fixed-point arithmetic (thousandths) for math.log, exp() and nn.GELU
\* ---------------------------------------------------------------------
RoundDiv(a, b) == (2 * a + b) \div (2 * b)
Abs(a) == IF a < 0 THEN 0 - a ELSE a

\* exp(z / 1000) in ten-thousandths, for z <= 0: Taylor terms near zero,
\* squaring of the half argument elsewhere.
RECURSIVE ExpNeg(_)
ExpNeg(z) ==
    IF z > -100
    THEN 10000 + 10 * z + (z * z) \div 200 + (z * z * z) \div 600000
    ELSE LET q == z \div 2
             h == ExpNeg(q)
             v == (h * h + 5000) \div 10000
         IN  IF z - 2 * q = 1 THEN (v * 10010 + 5000) \div 10000 ELSE v

ExpMilli(z) ==
    IF z <= 0 THEN (ExpNeg(z) + 5) \div 10
    ELSE (100000000 \div ExpNeg(0 - z) + 5) \div 10

\* math.log on the constructor arguments the model draws.
LnMilli(x) ==
    CASE x = 50 -> -2996
      [] x = 125 -> -2079

\* nn.GELU as x * sigmoid(1.702 x).
Sigmoid(y) ==
    IF y >= 0 THEN 10000000 \div (10000 + ExpNeg(0 - y))
    ELSE (1000 * ExpNeg(y)) \div (10000 + ExpNeg(y))

Gelu(x) == (x * Sigmoid((1702 * x) \div 1000)) \div 1000

\* ---------------------------------------------------------------------
\* Tensors: [N x 1 x T] values as Batch -> Samples -> thousandths, with
\* the set of parameter groups and leaf inputs a backward pass from the
\* tensor reaches.
\* ---------------------------------------------------------------------
BatchSize == 2
NumSamples == 2
NumChannels == 2

Batch == 1..BatchSize
Samples == 1..NumSamples
Channels == 1..NumChannels

TensorOf(a, b) == [n \in Batch |-> [j \in Samples |-> 100 * (a * n + b * j)]]
Tensors == {TensorOf(a, b) : a \in {-1, 1}, b \in {0, 1}}
TimeSeqs == {[n \in Batch |-> (250 * k * n) % 1000] : k \in 0..2}

Leaf(v, g) == [val |-> v, grad |-> g]
detach_identity(t) == t
detach(t) == [val |-> t.val, grad |-> {}]
Add(a, b) ==
    [val |-> [n \in Batch |-> [j \in Samples |-> a.val[n][j] + b.val[n][j]]],
     grad |-> a.grad \cup b.grad]

\* ---------------------------------------------------------------------
\* vq_vae.py: TimeScale
\* ---------------------------------------------------------------------
\* TimeEmbedding (outside src/): some fixed map from a time to `channels` features.
TimeEmb(t) == [c \in Channels |-> c * t]

TimeScale_init(initial, scale) ==
    [initial |-> initial, scale |-> scale,
     weight |-> [c \in Channels |-> 0],
     bias |-> RoundDiv(LnMilli(initial), scale)]

RECURSIVE LinearSum(_, _, _)
LinearSum(w, x, c) ==
    IF c = 0 THEN 0 ELSE w[c] * x[c] + LinearSum(w, x, c - 1)

\* self.out(self.time_emb(t) * self.scale).exp() for one batch entry
TimeScale_scale(g, t) ==
    LET e == TimeEmb(t)
        a == [c \in Channels |-> Gelu(e[c] * g.scale)]
    IN  ExpMilli(LinearSum(g.weight, a, NumChannels) \div 1000 + g.bias)

TimeScale_scales(g, ts) == [n \in Batch |-> TimeScale_scale(g, ts[n])]

\* x * scales, the scale of a batch entry broadcast over its samples
TimeScale_forward(g, name, x, ts) ==
    [val |-> [n \in Batch |->
                LET sc == TimeScale_scale(g, ts[n])
                IN  [j \in Samples |-> (x.val[n][j] * sc) \div 1000]],
     grad |-> x.grad \cup {name}]

\* ---------------------------------------------------------------------
\* vq_vae.py: predictions() and losses()
\* ---------------------------------------------------------------------
\* The predictors are opaque: `in` carries what each returns on this input.
base_predictor(in) == Leaf(in.base_out, {"base_predictor"})
label_predictor(in) == Leaf(in.label_out, {"label_predictor"})
cond_predictor(in) == Leaf(in.code_out, {"cond_predictor"} \cup in.cond_grad)

ConcreteVQVAE_predictions(in) == [k \in {"cond"} |-> cond_predictor(in)]

CascadeVQVAE_predictions_skip_label(g, in) ==
    LET base == base_predictor(in)
        label == Add(detach(base),
                     TimeScale_forward(g.scale_label, "scale_label", label_predictor(in), in.ts))
        cond == Add(detach(base),
                    TimeScale_forward(g.scale_cond, "scale_cond", cond_predictor(in), in.ts))
    IN  [k \in {"base", "label", "cond"} |->
            IF k = "base" THEN base ELSE IF k = "label" THEN label ELSE cond]

CascadeVQVAE_predictions(g, in) ==
    LET base == base_predictor(in)
        label == Add(detach(base),
                     TimeScale_forward(g.scale_label, "scale_label", label_predictor(in), in.ts))
        cond == Add(detach(label),
                    TimeScale_forward(g.scale_cond, "scale_cond", cond_predictor(in), in.ts))
    IN  [k \in {"base", "label", "cond"} |->
            IF k = "base" THEN base ELSE IF k = "label" THEN label ELSE cond]

predictions(cls, g, in) ==
    IF cls = "CascadeVQVAE" THEN CascadeVQVAE_predictions(g, in)
    ELSE ConcreteVQVAE_predictions(in)

\* Exact means: a fraction num / den.
Frac(n, d) == [num |-> n, den |-> d]

RECURSIVE SumTo(_, _)
SumTo(f, n) == IF n = 0 THEN 0 ELSE f[n] + SumTo(f, n - 1)

RECURSIVE SumOver(_, _)
SumOver(f, S) ==
    IF S = {} THEN 0
    ELSE LET k == CHOOSE x \in S : TRUE IN f[k] + SumOver(f, S \ {k})

\* ((predictions - epsilon) ** 2).flatten(1).mean(1)
SquaredErrorMean(pred, eps) ==
    [n \in Batch |->
        Frac(SumTo([j \in Samples |-> (pred[n][j] - eps[n][j]) * (pred[n][j] - eps[n][j])],
                   NumSamples),
             NumSamples)]

losses_cond_only(cls, g, in) ==
    LET named_preds == predictions(cls, g, in)
        mses_dict == [name \in DOMAIN named_preds |->
                         SquaredErrorMean(named_preds[name].val, in.eps)]
        mses == mses_dict["cond"]
        mse == Frac(SumTo([n \in Batch |-> mses[n].num], BatchSize),
                    mses[1].den * BatchSize)
    IN  [op |-> "losses", named_preds |-> named_preds, mses_dict |-> mses_dict,
         mses |-> mses, mse |-> mse, ts |-> in.ts]

losses(cls, g, in) ==
    LET named_preds == predictions(cls, g, in)
        mses_dict == [name \in DOMAIN named_preds |->
                         SquaredErrorMean(named_preds[name].val, in.eps)]
        mses == [n \in Batch |->
                    Frac(SumOver([name \in DOMAIN mses_dict |-> mses_dict[name][n].num],
                                 DOMAIN mses_dict),
                         NumSamples * Cardinality(DOMAIN mses_dict))]
        mse == Frac(SumTo([n \in Batch |-> mses[n].num], BatchSize),
                    mses[1].den * BatchSize)
    IN  [op |-> "losses", named_preds |-> named_preds, mses_dict |-> mses_dict,
         mses |-> mses, mse |-> mse, ts |-> in.ts]

Initials == {50, 125}
Scales == {1, 3}

NoGate == [initial |-> 0, scale |-> 0, weight |-> [c \in Channels |-> 0], bias |-> 0]
NoGates == [scale_label |-> NoGate, scale_cond |-> NoGate]
NoInp == [cls |-> "", base_out |-> TensorOf(0, 0), label_out |-> TensorOf(0, 0),
          code_out |-> TensorOf(0, 0), eps |-> TensorOf(0, 0),
          ts |-> [n \in Batch |-> 0], cond_grad |-> {}]
NoOut == [op |-> "", named_preds |-> [k \in {} |-> Leaf(TensorOf(0, 0), {})],
          mses_dict |-> [k \in {} |-> [n \in Batch |-> Frac(0, 1)]],
          mses |-> [n \in Batch |-> Frac(0, 1)], mse |-> Frac(0, 1),
          ts |-> [n \in Batch |-> 0]]

\* An optimizer step as far as the two gates see it: the label gate's weights
\* move, or the code gate's bias does.
GateStep ==
    /\ out.op = ""
    /\ step < MaxGateSteps
    /\ \/ gates' = [gates EXCEPT !.scale_label.weight =
                        [c \in Channels |-> gates.scale_label.weight[c] + 10]]
       \/ gates' = [gates EXCEPT !.scale_cond.bias = gates.scale_cond.bias + 50]
    /\ step' = step + 1
    /\ UNCHANGED <<fcall, pc, fs, obj, last, saved, args, inp, out>>

\* A direct call of predictions(xs, ts, cond=..., labels=...).
Predictions ==
    /\ out.op = ""
    /\ \E cls \in Classes, b \in Tensors, l \in Tensors, c \in Tensors,
          ts \in TimeSeqs, cg \in {{}, {"cond"}} :
          LET in == [cls |-> cls, base_out |-> b, label_out |-> l, code_out |-> c,
                     eps |-> TensorOf(0, 0), ts |-> ts, cond_grad |-> cg]
          IN  /\ inp' = in
              /\ out' = [NoOut EXCEPT !.op = "predictions",
                                      !.named_preds = predictions(cls, gates, in),
                                      !.ts = ts]
    /\ UNCHANGED <<fcall, pc, fs, obj, last, saved, step, args, gates>>

\* losses(inputs, labels): ts and epsilon are drawn inside; the conditioning
\* is the quantizer's passthrough, which carries a gradient.
Losses ==
    /\ out.op = ""
    /\ \E cls \in Classes, b \in Tensors, l \in Tensors, c \in Tensors,
          e \in Tensors, ts \in TimeSeqs :
          LET in == [cls |-> cls, base_out |-> b, label_out |-> l, code_out |-> c,
                     eps |-> e, ts |-> ts, cond_grad |-> {"cond"}]
          IN  /\ inp' = in
              /\ out' = losses(cls, gates, in)
    /\ UNCHANGED <<fcall, pc, fs, obj, last, saved, step, args, gates>>

\* ---------------------------------------------------------------------
\* Calls of the name factories
\* ---------------------------------------------------------------------
NoCall == [fn |-> "", name |-> "", base_channels |-> 0, cond_channels |-> None,
           num_labels |-> None, dropout |-> 0, cond_mult |-> 0,
           res |-> Raise("", <<>>)]

CallMakeSchedule ==
    /\ \E name \in Names :
          fcall' = [NoCall EXCEPT !.fn = "make_schedule", !.name = name,
                                  !.res = make_schedule(name)]
    /\ UNCHANGED <<pc, fs, obj, last, saved, step, args, gates, inp, out>>

CallMakeEncoder ==
    /\ \E name \in Names, bc \in BaseChannels, cm \in CondMults :
          fcall' = [NoCall EXCEPT !.fn = "make_encoder", !.name = name,
                                  !.base_channels = bc, !.cond_mult = cm,
                                  !.res = make_encoder(name, bc, cm)]
    /\ UNCHANGED <<pc, fs, obj, last, saved, step, args, gates, inp, out>>

CallMakePredictor ==
    /\ \E name \in Names, bc \in BaseChannels, nl \in OptLabelCounts,
          cc \in CondChannels, d \in Dropouts :
          fcall' = [NoCall EXCEPT !.fn = "make_predictor", !.name = name,
                                  !.base_channels = bc, !.num_labels = nl,
                                  !.cond_channels = cc, !.dropout = d,
                                  !.res = make_predictor(name, bc, nl, cc, d)]
    /\ UNCHANGED <<pc, fs, obj, last, saved, step, args, gates, inp, out>>

CallPredictorDownsampleRate ==
    /\ \E name \in Names :
          fcall' = [NoCall EXCEPT !.fn = "predictor_downsample_rate", !.name = name,
                                  !.res = predictor_downsample_rate(name)]
    /\ UNCHANGED <<pc, fs, obj, last, saved, step, args, gates, inp, out>>

CallVqVaeMakePredictor ==
    /\ \E name \in Names, bc \in BaseChannels, nl \in OptLabelCounts,
          cc \in CondChannels :
          fcall' = [NoCall EXCEPT !.fn = "vq_vae.make_predictor", !.name = name,
                                  !.base_channels = bc, !.num_labels = nl,
                                  !.cond_channels = cc,
                                  !.res = vq_vae_make_predictor(name, bc, cc, nl)]
    /\ UNCHANGED <<pc, fs, obj, last, saved, step, args, gates, inp, out>>

CallVqVaePredictorDownsampleRate ==
    /\ \E name \in Names :
          fcall' = [NoCall EXCEPT !.fn = "vq_vae.predictor_downsample_rate",
                                  !.name = name,
                                  !.res = vq_vae_predictor_downsample_rate(name)]
    /\ UNCHANGED <<pc, fs, obj, last, saved, step, args, gates, inp, out>>

\* ---------------------------------------------------------------------
\* Specifications
\* ---------------------------------------------------------------------
ProgramOff ==
    /\ pc = "off" /\ fs = NoFiles /\ obj = NoObj /\ last = NoLast
    /\ saved = NoObj /\ step = 0 /\ args = NoArgs
CascadeOff == gates = NoGates /\ inp = NoInp /\ out = NoOut

\* A program that uses the orchestrator API.
Init ==
    /\ fcall = NoCall /\ CascadeOff
    /\ pc = "ready" /\ fs = NoFiles /\ obj = NoObj /\ last = NoLast
    /\ saved = NoObj /\ step = 0 /\ args = NoArgs

Next ==
    \/ Construct \/ OptimizerStep \/ Save \/ SaveWrite \/ SaveWriteFail
    \/ SaveRename \/ Crash \/ Load \/ DownsampleRate \/ Decode

Spec == Init /\ [][Next]_vars

\* train_vqvae.py, started with or without a checkpoint of an earlier run.
InitTrain ==
    /\ fcall = NoCall /\ CascadeOff
    /\ pc = "start" /\ obj = NoObj /\ last = NoLast /\ saved = NoObj /\ step = 0
    /\ \E ck \in {Absent} \cup
                 {[exists |-> TRUE, complete |-> TRUE,
                   kwargs |-> [pred_name |-> "wavegrad", num_labels |-> nl,
                               base_channels |-> 32],
                   state_dict |-> [k \in StateKeys("ConcreteVQVAE") |-> seed]] :
                      nl \in LabelCounts, seed \in Seeds} :
          /\ fs = [ckpt |-> ck, tmp |-> Absent]
          /\ \E nl \in LabelCounts, si \in 1..MaxInterval :
                args = [num_labels |-> nl, save_interval |-> si, ckpt0 |-> ck]

NextTrain ==
    \/ MainSetup \/ MainTrainStep \/ SaveWrite \/ SaveWriteFail \/ SaveRename \/ Crash

SpecTrain == InitTrain /\ [][NextTrain]_vars

\* The name factories, called with any name.
InitFactory == fcall = NoCall /\ ProgramOff /\ CascadeOff

NextFactory ==
    \/ CallMakeSchedule \/ CallMakeEncoder \/ CallMakePredictor
    \/ CallPredictorDownsampleRate \/ CallVqVaeMakePredictor
    \/ CallVqVaePredictorDownsampleRate

SpecFactory == InitFactory /\ [][NextFactory]_vars

\* A cascade with freshly constructed gates, trained a little, then called.
InitCascade ==
    /\ fcall = NoCall /\ ProgramOff
    /\ inp = NoInp /\ out = NoOut
    /\ \E i \in Initials, sc \in Scales :
          gates = [scale_label |-> TimeScale_init(i, sc),
                   scale_cond |-> TimeScale_init(i, sc)]

NextCascade == GateStep \/ Predictions \/ Losses

SpecCascade == InitCascade /\ [][NextCascade]_vars

\* ---------------------------------------------------------------------
\* Properties
\* ---------------------------------------------------------------------
RECURSIVE GCD(_, _)
GCD(a, b) == IF b = 0 THEN a ELSE GCD(b, a % b)
LCM(a, b) == (a * b) \div GCD(a, b)

\* C1: downsample_rate() of a constructed orchestrator is the least common
\* multiple of the encoder's declared rate and the declared rate of the
\* predictor it was built with.
DownsampleRateIsLCM ==
    last.op = "downsample_rate" =>
        /\ last.status = "return"
        /\ last.rate = LCM(encoder_downsample_rate,
                           The(predictor_downsample_rate(obj.pred_name).value.rate))

DownsampleRateUNetSeen ==
    /\ last.op = "downsample_rate"
    /\ obj.pred_name = "unet"
    /\ last.rate = 256
    /\ last.rate # encoder_downsample_rate

\* C2: in the cascade, a backward pass from 'base' reaches the base predictor
\* only, from 'label' the label predictor and scale_label only, and from
\* 'cond' the code-conditioned predictor, scale_cond and the conditioning
\* input only.
GradientIsolation ==
    (out.op # "" /\ inp.cls = "CascadeVQVAE") =>
        /\ out.named_preds["base"].grad = {"base_predictor"}
        /\ out.named_preds["label"].grad = {"label_predictor", "scale_label"}
        /\ out.named_preds["cond"].grad =
               {"cond_predictor", "scale_cond"} \cup inp.cond_grad

CascadeCalledWithCondGrad ==
    /\ out.op = "predictions"
    /\ inp.cls = "CascadeVQVAE"
    /\ inp.cond_grad = {"cond"}
    /\ "cond" \in out.named_preds["cond"].grad

\* C3: the cascade's 'base' entry is the base predictor's output, 'label' is
\* base + scale_label(label stage output), and 'cond' is
\* base + scale_label(label stage output) + scale_cond(code stage output).
CascadeForwardValue ==
    (out.op # "" /\ inp.cls = "CascadeVQVAE") =>
        LET sl == TimeScale_forward(gates.scale_label, "scale_label",
                                    Leaf(inp.label_out, {}), inp.ts).val
            sc == TimeScale_forward(gates.scale_cond, "scale_cond",
                                    Leaf(inp.code_out, {}), inp.ts).val
        IN  \A n \in Batch, j \in Samples :
               /\ out.named_preds["base"].val[n][j] = inp.base_out[n][j]
               /\ out.named_preds["label"].val[n][j] = inp.base_out[n][j] + sl[n][j]
               /\ out.named_preds["cond"].val[n][j] =
                      inp.base_out[n][j] + sl[n][j] + sc[n][j]

CascadeThreeStagesSeen ==
    /\ out.op = "predictions"
    /\ inp.cls = "CascadeVQVAE"
    /\ step > 0
    /\ \E n \in Batch, j \in Samples :
          /\ out.named_preds["label"].val[n][j] # out.named_preds["base"].val[n][j]
          /\ out.named_preds["cond"].val[n][j] # out.named_preds["label"].val[n][j]
          /\ out.named_preds["cond"].val[n][j] # out.named_preds["base"].val[n][j]

\* C4: a freshly constructed TimeScale gate scales by a strictly positive
\* factor that is the same for every timestep and equals its `initial`
\* argument (to within two thousandths of rounding).
FreshGateScaleIsInitial ==
    (step = 0 /\ out.op = "predictions" /\ inp.cls = "CascadeVQVAE") =>
        LET scales == TimeScale_scales(gates.scale_label, inp.ts)
        IN  \A n \in Batch :
               /\ scales[n] > 0
               /\ scales[n] = scales[1]
               /\ Abs(scales[n] - gates.scale_label.initial) <= 2

\* C5 as stated: an unrecognized name raises ValueError with the name in
\* the message and yields nothing; a recognized name returns its variant.
Recognized(fn) ==
    IF fn = "make_schedule" THEN {"exp", "cos"} ELSE {"wavegrad", "unet"}

ReturnsVariantOfName(c) ==
    /\ c.res.status = "return"
    /\ CASE c.fn = "make_schedule" ->
              c.res.value.variant = (IF c.name = "exp" THEN "ExpSchedule" ELSE "CosSchedule")
         [] c.fn = "make_encoder" ->
              c.res.value.variant =
                  (IF c.name = "wavegrad" THEN "WaveGradEncoder" ELSE "UNetEncoder")
         [] c.fn \in {"make_predictor", "vq_vae.make_predictor"} ->
              c.res.value.variant =
                  (IF c.name = "wavegrad" THEN "WaveGradPredictor" ELSE "UNetPredictor")
         [] OTHER ->
              c.res.value.rate = (IF c.name = "wavegrad" THEN {64} ELSE {256})

FailsNamingTheName(c) ==
    /\ c.res.status = "raise"
    /\ c.res.exc = "ValueError"
    /\ \E i \in DOMAIN c.res.msg : c.res.msg[i] = c.name
    /\ c.res.value = NoVariant

FactoryContractAsStated ==
    fcall.fn # "" =>
        IF fcall.name \in Recognized(fcall.fn)
        THEN ReturnsVariantOfName(fcall)
        ELSE FailsNamingTheName(fcall)

\* C5, amended: as above, except that make_predictor of models/make.py,
\* asked for "wavegrad" with a non-zero dropout, fails its assertion.
FactoryContract ==
    fcall.fn # "" =>
        IF fcall.name \notin Recognized(fcall.fn)
        THEN FailsNamingTheName(fcall)
        ELSE IF fcall.fn = "make_predictor" /\ fcall.name = "wavegrad" /\ fcall.dropout # 0
        THEN fcall.res.status = "raise" /\ fcall.res.exc = "AssertionError"
        ELSE ReturnsVariantOfName(fcall)

UnknownNameRejected ==
    /\ fcall.fn = "make_schedule"
    /\ fcall.name = "linear"
    /\ fcall.res.status = "raise"

\* C6: every call decode's sampler makes to the predictor function takes
\* the entry of predictions() named by `key`.
DecodeUsesKey ==
    last.op = "decode" => \A i \in DOMAIN last.used : last.used[i] = last.key

\* C7: started on a checkpoint whose label count differs from the
\* dataset's, the training program takes no training step and writes no
\* file: it has not got past loading, where it stops on the assertion
\* (unless it is killed first).
LabelMismatch ==
    args.ckpt0.exists /\ args.ckpt0.kwargs.num_labels # args.num_labels

LabelMismatchStops ==
    LabelMismatch =>
        /\ pc \in {"start", "assert_failed", "crashed"}
        /\ step = 0
        /\ (pc = "crashed" => obj = NoObj)
        /\ saved = NoObj
        /\ fs = [ckpt |-> args.ckpt0, tmp |-> Absent]

AssertionFired == pc = "assert_failed" /\ LabelMismatch /\ obj # NoObj

\* C8: load by the class that saved returns an instance of that class with
\* the saved configuration and the saved parameters.
SaveLoadRoundTrip ==
    (last.op = "load" /\ saved # NoObj /\ last.cls = saved.cls) =>
        /\ last.status = "return"
        /\ last.obj.cls = saved.cls
        /\ last.obj.pred_name = saved.pred_name
        /\ last.obj.num_labels = saved.num_labels
        /\ last.obj.base_channels = saved.base_channels
        /\ last.obj.params = saved.params

TrainedCascadeReloaded ==
    /\ last.op = "load"
    /\ last.status = "return"
    /\ last.cls = "CascadeVQVAE"
    /\ saved # NoObj
    /\ saved.params["base_predictor"] # saved.params["encoder"]
    /\ last.obj.params = saved.params

\* C9: losses() reports one per-element mean squared error per name of
\* predictions(), 'mses' as their per-element mean over the names, 'mse' as
\* the mean of 'mses' over the batch, and one time in [0, 1) per element.
LossesBreakdown ==
    out.op = "losses" =>
        /\ DOMAIN out.mses_dict = PredictionKeys(inp.cls)
        /\ \A name \in DOMAIN out.mses_dict, n \in Batch :
              out.mses_dict[name][n] =
                  Frac(SumTo([j \in Samples |->
                                 (out.named_preds[name].val[n][j] - inp.eps[n][j]) ^ 2],
                             NumSamples),
                       NumSamples)
        /\ \A n \in Batch :
              out.mses[n] =
                  Frac(SumOver([name \in PredictionKeys(inp.cls) |->
                                   out.mses_dict[name][n].num],
                               PredictionKeys(inp.cls)),
                       NumSamples * Cardinality(PredictionKeys(inp.cls)))
        /\ out.mse =
               Frac(SumTo([n \in Batch |-> out.mses[n].num], BatchSize),
                    NumSamples * Cardinality(PredictionKeys(inp.cls)) * BatchSize)
        /\ DOMAIN out.ts = Batch
        /\ \A n \in Batch : 0 <= out.ts[n] /\ out.ts[n] < 1000

CascadeLossesSeen ==
    /\ out.op = "losses"
    /\ inp.cls = "CascadeVQVAE"
    /\ \E n \in Batch :
          /\ out.mses_dict["base"][n] # out.mses_dict["cond"][n]
          /\ out.mses_dict["label"][n] # out.mses_dict["cond"][n]
          /\ out.mses[n].num > 0

\* C10: the checkpoint path never holds a partial file: it holds the
\* snapshot it held when the program started until a save completes, and
\* from then on the configuration and parameters of the instance as last
\* saved, whatever fails or crashes in between.
SnapshotOf(o) ==
    [exists |-> TRUE, complete |-> TRUE,
     kwargs |-> [pred_name |-> o.pred_name, num_labels |-> o.num_labels,
                 base_channels |-> o.base_channels],
     state_dict |-> o.params]

CheckpointAtomic ==
    /\ fs.ckpt.exists => fs.ckpt.complete
    /\ fs.ckpt = IF saved = NoObj THEN args.ckpt0 ELSE SnapshotOf(saved)

CrashedWhileWriting ==
    /\ pc = "crashed"
    /\ fs.tmp.exists /\ ~fs.tmp.complete
    /\ saved # NoObj
    /\ fs.tmp.state_dict # fs.ckpt.state_dict

====
